---------------------------- MODULE Spec2Model ----------------------------
(***************************************************************************)
(* read-estimate (src/index.js): reading-time estimation for the documents *)
(* of a directory.                                                         *)
(*                                                                         *)
(* Representation choices.                                                 *)
(*  - A text is a sequence of chunks; a chunk [ws, n] stands for n >= 1    *)
(*    consecutive characters that are all whitespace (ws = TRUE) or all    *)
(*    non-whitespace.  Two neighbouring chunks may have the same class, so *)
(*    a maximal run may span several chunks.                               *)
(*  - A string the program builds (a duration, a rendered number) is a     *)
(*    sequence of one-character strings.                                   *)
(*  - A words-per-minute rate is an exact fraction <<num, den>> with       *)
(*    den > 0, so that rates such as 0.5 and 2.5 are covered; NaN is       *)
(*    <<0, 0>>.                                                            *)
(*  - A file name is a record [stem, ext]; ext is "" or starts with ".".   *)
(***************************************************************************)
EXTENDS Integers, Sequences, FiniteSets

(***************************************************************************)
(* Bounds of the model.                                                    *)
(***************************************************************************)
\* Largest number of entries of a directory listing.
MaxFiles == 3
\* Largest number of chunks of a text drawn for getWordCount alone.
MaxChunks == 3
\* Word counts 0..MaxWordCount are drawn for getFileStats alone.
MaxWordCount == 130

\* Chunk lengths: around the characters-per-page divisor and its half.
ChunkLens == {1, 890, 1781}
\* Word counts beyond MaxWordCount: a day of minutes, and three-digit hours.
BigWordCounts == {1439, 1440, 1441, 5999, 6000, 6001, 12000}
\* Native page counts a PDF parser reports.
NativePages == {0, 3, 1200}
\* The number of words of the long sample text.
SampleWords == 31

(***************************************************************************)
(* Strings and numbers.                                                    *)
(***************************************************************************)
Digit(d) ==
  CASE d = 0 -> "0" [] d = 1 -> "1" [] d = 2 -> "2" [] d = 3 -> "3"
    [] d = 4 -> "4" [] d = 5 -> "5" [] d = 6 -> "6" [] d = 7 -> "7"
    [] d = 8 -> "8" [] d = 9 -> "9"

RECURSIVE toString(_)
\* Number.prototype.toString for a non-negative integer: its decimal digits.
toString(n) ==
  IF n < 10 THEN <<Digit(n)>> ELSE toString(n \div 10) \o <<Digit(n % 10)>>

RECURSIVE padStart(_, _, _)
\* String.prototype.padStart with a one-character fill string.
padStart(s, targetLength, fill) ==
  IF Len(s) >= targetLength THEN s
  ELSE padStart(<<fill>> \o s, targetLength, fill)

RECURSIVE toLocaleString(_)
\* Number.prototype.toLocaleString for a non-negative integer in the default
\* (en-US) locale: the digits, grouped by three with commas.
toLocaleString(n) ==
  IF n < 1000 THEN toString(n)
  ELSE toLocaleString(n \div 1000) \o <<",">> \o padStart(toString(n % 1000), 3, "0")

\* Math.ceil(a / b) for an integer a >= 0 and an integer b > 0.
CeilDiv(a, b) == (a + b - 1) \div b

\* Math.ceil(w / r) for an integer w >= 0 and a rate r = <<num, den>> > 0.
CeilByRate(w, r) == CeilDiv(w * r[2], r[1])

(***************************************************************************)
(* Extensions (path.extname, toLowerCase, slice(1).toUpperCase()).         *)
(***************************************************************************)
Exts == {".pdf", ".PDF", ".txt", ".TXT", ".md", ".docx", ".rtf", ".epub",
         ".html", ".odt", ".ODT", ".exe", ""}

toLowerCase(e) ==
  CASE e = ".PDF" -> ".pdf" [] e = ".TXT" -> ".txt" [] e = ".ODT" -> ".odt"
    [] OTHER -> e

\* ext.slice(1).toUpperCase()
sliceUpper(e) ==
  CASE e \in {".pdf", ".PDF"} -> "PDF" [] e \in {".txt", ".TXT"} -> "TXT"
    [] e = ".md" -> "MD" [] e = ".docx" -> "DOCX" [] e = ".rtf" -> "RTF"
    [] e = ".epub" -> "EPUB" [] e = ".html" -> "HTML"
    [] e \in {".odt", ".ODT"} -> "ODT" [] e = ".exe" -> "EXE" [] e = "" -> ""

SUPPORTED_FORMATS == {".pdf", ".txt", ".md", ".docx", ".rtf", ".epub", ".html"}

\* SUPPORTED_FORMATS.includes(path.extname(file).toLowerCase())
isSupported(name) == toLowerCase(name.ext) \in SUPPORTED_FORMATS

(***************************************************************************)
(* Texts.                                                                  *)
(***************************************************************************)
W(n) == [ws |-> FALSE, n |-> n]
S(n) == [ws |-> TRUE, n |-> n]

RECURSIVE length(_)
\* text.length
length(text) == IF text = <<>> THEN 0 ELSE Head(text).n + length(Tail(text))

RECURSIVE trimStart(_)
trimStart(text) ==
  IF text # <<>> /\ Head(text).ws THEN trimStart(Tail(text)) ELSE text

RECURSIVE trimEnd(_)
trimEnd(text) ==
  IF text # <<>> /\ text[Len(text)].ws
  THEN trimEnd(SubSeq(text, 1, Len(text) - 1)) ELSE text

\* String.prototype.trim
trim(text) == trimEnd(trimStart(text))

RECURSIVE splitFrom(_, _, _, _)
\* The tokens of text[i..] when cur is the token being read and inSep says
\* whether the previous character belonged to a separator.
splitFrom(text, i, cur, inSep) ==
  IF i > Len(text) THEN <<cur>>
  ELSE IF text[i].ws
       THEN IF inSep THEN splitFrom(text, i + 1, cur, TRUE)
            ELSE <<cur>> \o splitFrom(text, i + 1, <<>>, TRUE)
       ELSE splitFrom(text, i + 1, Append(cur, text[i]), FALSE)

\* String.prototype.split(/\s+/): the pieces between the maximal whitespace
\* runs; the empty string yields one empty piece.
split(text) == splitFrom(text, 1, <<>>, FALSE)


(***************************************************************************)
(* Paths (path.join, path.basename, path.extname).                         *)
(***************************************************************************)
Name(stem, ext) == [stem |-> stem, ext |-> ext]

\* path.join(input, file) for a directory input and an entry of it.
join(input, file) == [dir |-> input, name |-> file]

\* The path of an input given on the command line.
inputPath(name) == [dir |-> <<>>, name |-> name]

basename(filePath) == filePath.name

extname(filePath) == filePath.name.ext

(***************************************************************************)
(* getWordCount and getFileStats.                                          *)
(*                                                                         *)
(* An extraction outcome is what the format library does for one file:    *)
(* [ok |-> FALSE] when readFile, pdf(), mammoth or textract throws, and    *)
(* [ok |-> TRUE, text, numpages] otherwise (numpages is read for a PDF     *)
(* only).                                                                  *)
(***************************************************************************)
CharsPerPage == 1781

Failed == [ok |-> FALSE, text |-> <<>>, numpages |-> 0]

Extracted(text, numpages) == [ok |-> TRUE, text |-> text, numpages |-> numpages]

\* pageCountOf with Math.floor in place of Math.ceil.
pageCountFloor(ext, outcome) ==
  CASE ext = ".pdf" -> outcome.numpages
    [] OTHER -> length(outcome.text) \div CharsPerPage

\* Lines 47-62: the page count of a successful extraction.
pageCountOf(ext, outcome) ==
  CASE ext = ".pdf" -> outcome.numpages
    [] ext = ".docx" -> CeilDiv(length(outcome.text), CharsPerPage)
    [] OTHER -> CeilDiv(length(outcome.text), CharsPerPage)

\* Lines 67-68: the words of a text.
wordsOf(text) == split(trim(text))

\* getWordCount whose catch does not return: a failure falls through to
\* line 67 with the initial text '' and pageCount 0.
getWordCountFallThrough(filePath, outcome) ==
  LET ext == toLowerCase(extname(filePath))
  IN  IF ~outcome.ok
      THEN [wordCount |-> Len(wordsOf(<<>>)), pageCount |-> 0]
      ELSE [wordCount |-> Len(wordsOf(outcome.text)),
            pageCount |-> pageCountOf(ext, outcome)]

getWordCount(filePath, outcome) ==
  LET ext == toLowerCase(extname(filePath))
  IN  IF ~outcome.ok
      THEN [wordCount |-> 0, pageCount |-> 0]
      ELSE [wordCount |-> Len(wordsOf(outcome.text)),
            pageCount |-> pageCountOf(ext, outcome)]

\* readingTimeMinutesOf with Math.round in place of Math.ceil.
readingTimeMinutesRounded(wordCount, wpm) ==
  (2 * wordCount * wpm[2] + wpm[1]) \div (2 * wpm[1])

\* Line 73: Math.ceil(wordCount / WORDS_PER_MINUTE).
readingTimeMinutesOf(wordCount, wpm) == CeilByRate(wordCount, wpm)

\* Lines 75-77: the HH:MM:00 string of a number of minutes.
readingTimeOf(readingTimeMinutes) ==
  LET hours == readingTimeMinutes \div 60
      minutes == readingTimeMinutes % 60
  IN  padStart(toString(hours), 2, "0") \o <<":">>
        \o padStart(toString(minutes), 2, "0") \o <<":", "0", "0">>

\* getFileStats, given what its call of getWordCount returned.
getFileStats(filePath, counts, wpm) ==
  LET readingTimeMinutes == readingTimeMinutesOf(counts.wordCount, wpm)
  IN  [file |-> basename(filePath),
       format |-> sliceUpper(extname(filePath)),
       wordCount |-> counts.wordCount,
       pageCount |-> counts.pageCount,
       readingTime |-> readingTimeOf(readingTimeMinutes),
       readingTimeMinutes |-> readingTimeMinutes]

(***************************************************************************)
(* Array.prototype.sort with a comparator: a stable sort (ECMAScript 2019, *)
(* V8 since 7.0).  x goes after every element the comparator does not put  *)
(* behind it.                                                              *)
(***************************************************************************)
\* compareFn with its operands exchanged: an ascending order.
compareAscending(a, b) == a.readingTimeMinutes - b.readingTimeMinutes

\* Line 114: (a, b) => b.readingTimeMinutes - a.readingTimeMinutes
compareFn(a, b) == b.readingTimeMinutes - a.readingTimeMinutes

RECURSIVE insertSorted(_, _)
insertSorted(sorted, x) ==
  IF sorted = <<>> THEN <<x>>
  ELSE IF compareFn(Head(sorted), x) > 0
       THEN <<x>> \o sorted
       ELSE <<Head(sorted)>> \o insertSorted(Tail(sorted), x)

RECURSIVE sort(_)
sort(array) ==
  IF array = <<>> THEN <<>>
  ELSE insertSorted(sort(SubSeq(array, 1, Len(array) - 1)), array[Len(array)])

(***************************************************************************)
(* The state of one run.                                                   *)
(***************************************************************************)
VARIABLES
  argv,            \* [wpm, timesort, input]: the parsed command line
  pc,              \* where the run is: "validate", "stat", "readdir",
                   \* "collect", "returned", "exited" ("call" in the
                   \* function-level specifications)
  exitCode,        \* <<>> while running, then <<the exit status>>
  stderr,          \* the messages of console.error
  inputKind,       \* what fs.stat found: "unknown", "ENOENT", "directory",
                   \* "file" or "other"
  spinner,         \* [state, text]: "idle", "spinning", "stopped" or "fail"
  allFiles,        \* the listing fs.readdir returned
  files,           \* the paths handed to getFileStats, in discovery order
  task,            \* task[i]: "readFile", "pdf", "extract" or "done"
  outcome,         \* outcome[i]: what extraction did for files[i]
  stats,           \* stats[i]: what getFileStats(files[i]) resolved to
  overtaken,       \* some collection completed before an earlier file's
  results,         \* the array Promise.all resolved to, after the sort
  totalPageCount,  \* line 129
  totalMinutes,    \* line 130
  stdout,          \* what console.log printed
  arg,             \* function-level specifications: the arguments
  ret              \* function-level specifications: <<the value returned>>

vars == <<argv, pc, exitCode, stderr, inputKind, spinner, allFiles, files, task, outcome,
          stats, overtaken, results, totalPageCount, totalMinutes, stdout,
          arg, ret>>

collectVars == <<allFiles, files, task, outcome, stats, overtaken>>
reportVars == <<results, totalPageCount, totalMinutes, stdout>>
callVars == <<arg, ret>>

(***************************************************************************)
(* The inputs of a run.                                                    *)
(***************************************************************************)
\* --wpm: not a number, zero, negative, 0.5, and the default 200.
WpmValues == {<<0, 0>>, <<0, 1>>, <<-5, 1>>, <<1, 2>>, <<200, 1>>}

\* The extensions of the entries of a directory listing.
DirExts == {".txt", ".PDF", ".odt", ".exe"}

\* The extensions of an input path that may name a directory.
DirInputExts == {"", ".txt"}

RECURSIVE ListingsOf(_)
\* The listings of n entries; the entry at position k has stem k.
ListingsOf(n) ==
  IF n = 0 THEN {<<>>}
  ELSE {Append(l, Name(n, e)) : l \in ListingsOf(n - 1), e \in DirExts}

Listings == UNION {ListingsOf(n) : n \in 0..MaxFiles}

RECURSIVE repeat(_, _)
repeat(text, k) == IF k = 0 THEN <<>> ELSE text \o repeat(text, k - 1)

WsOnly == <<S(2)>>
Short == <<S(1), W(3), S(1), S(1), W(4), S(1)>>
Long == repeat(<<W(60), S(1)>>, SampleWords - 1) \o <<W(60)>>

\* What extraction may do for a file of a run: it fails, or it yields a
\* text (for a PDF, whitespace only, as of scanned pages, or the long text).
SampleOutcomes(filePath) ==
  IF toLowerCase(extname(filePath)) = ".pdf"
  THEN {Failed, Extracted(WsOnly, 3), Extracted(Long, 1200)}
  ELSE {Failed, Extracted(Short, 0), Extracted(Long, 0)}

(***************************************************************************)
(* The run: module top level, then processFiles.                           *)
(***************************************************************************)
NoStats == [file |-> Name(0, ""), format |-> "", wordCount |-> 0,
            pageCount |-> 0, readingTime |-> <<>>, readingTimeMinutes |-> 0]

Spinner(state, text) == [state |-> state, text |-> text]

Init ==
  /\ argv \in [wpm : WpmValues, timesort : BOOLEAN,
               input : {Name("in", e) : e \in Exts}]
  /\ pc = "validate"
  /\ exitCode = <<>>
  /\ stderr = <<>>
  /\ inputKind = "unknown"
  /\ spinner = Spinner("idle", "")
  /\ allFiles = <<>>
  /\ files = <<>>
  /\ task = <<>>
  /\ outcome = <<>>
  /\ stats = <<>>
  /\ overtaken = FALSE
  /\ results = <<>>
  /\ totalPageCount = 0
  /\ totalMinutes = 0
  /\ stdout = <<>>
  /\ arg = <<>>
  /\ ret = <<>>

isNaN(wpm) == wpm[2] = 0

\* wpm <= 0, which is false of NaN.
notAboveZero(wpm) == wpm[2] # 0 /\ wpm[1] <= 0

\* invalidWpm with < in place of <=: zero is let through.
invalidWpmBelowZero(wpm) == isNaN(wpm) \/ (wpm[2] # 0 /\ wpm[1] < 0)

\* Line 34: isNaN(argv.wpm) || argv.wpm <= 0
invalidWpm(wpm) == isNaN(wpm) \/ notAboveZero(wpm)

\* Line 39.
WORDS_PER_MINUTE == argv.wpm

\* Lines 33-37: an invalid --wpm ends the process before processFiles is called.
RejectWpm ==
  /\ pc = "validate"
  /\ invalidWpm(argv.wpm)
  /\ stderr' = Append(stderr, "Invalid wpm value")
  /\ exitCode' = <<1>>
  /\ pc' = "exited"
  /\ UNCHANGED <<argv, inputKind, spinner, collectVars, reportVars, callVars>>

\* Lines 33-39, 163-164, 90, 93: processFiles starts the spinner and awaits fs.stat.
AcceptWpm ==
  /\ pc = "validate"
  /\ ~invalidWpm(argv.wpm)
  /\ spinner' = Spinner("spinning", "Processing documents...")
  /\ pc' = "stat"
  /\ UNCHANGED <<argv, exitCode, stderr, inputKind, collectVars, reportVars,
                 callVars>>

\* Lines 158-160: the catch of processFiles.
Caught(message) ==
  /\ spinner' = Spinner("fail", message)
  /\ pc' = "returned"

\* The first await of getWordCount for a file (lines 49, 55, 60).
firstAwait(filePath) ==
  IF toLowerCase(extname(filePath)) = ".pdf" THEN "readFile" ELSE "extract"

\* Lines 106-111: an empty list ends the run; otherwise every getFileStats
\* call is started, each running up to its first await.
StartCollect(found) ==
  /\ files' = found
  /\ IF Len(found) = 0
     THEN /\ spinner' = Spinner("fail", "No supported documents found")
          /\ pc' = "returned"
          /\ UNCHANGED <<task, outcome, stats>>
     ELSE /\ task' = [i \in 1..Len(found) |-> firstAwait(found[i])]
          /\ outcome' = [i \in 1..Len(found) |-> Failed]
          /\ stats' = [i \in 1..Len(found) |-> NoStats]
          /\ pc' = "collect"
          /\ UNCHANGED spinner

\* Line 93: fs.stat rejects (the path does not exist or is inaccessible).
StatFails ==
  /\ pc = "stat"
  /\ inputKind' = "ENOENT"
  /\ Caught("ENOENT: no such file or directory")
  /\ UNCHANGED <<argv, exitCode, stderr, collectVars, reportVars, callVars>>

\* Lines 96-97: the input is a directory; fs.readdir is awaited.
StatDirectory ==
  /\ pc = "stat"
  /\ argv.input.ext \in DirInputExts
  /\ inputKind' = "directory"
  /\ pc' = "readdir"
  /\ UNCHANGED <<argv, exitCode, stderr, spinner, collectVars, reportVars,
                 callVars>>

\* Lines 100-101, 106-111: the input is a regular file of a supported format.
StatSupportedFile ==
  /\ pc = "stat"
  /\ isSupported(argv.input)
  /\ inputKind' = "file"
  /\ StartCollect(<<inputPath(argv.input)>>)
  /\ UNCHANGED <<argv, exitCode, stderr, allFiles, overtaken, reportVars,
                 callVars>>

\* Lines 100-104: a regular file of another format, or neither a file nor a
\* directory.
StatInvalid ==
  /\ pc = "stat"
  /\ \E kind \in {"file", "other"} :
       /\ ~(kind = "file" /\ isSupported(argv.input))
       /\ inputKind' = kind
  /\ Caught("Invalid input. Please provide a supported file or directory.")
  /\ UNCHANGED <<argv, exitCode, stderr, collectVars, reportVars, callVars>>

RECURSIVE filterUpToUnsupported(_)
\* filterSupported that stops at the first unsupported entry.
filterUpToUnsupported(list) ==
  IF list = <<>> THEN <<>>
  ELSE IF isSupported(Head(list))
       THEN <<Head(list)>> \o filterUpToUnsupported(Tail(list))
       ELSE <<>>

\* allFiles.filter(...) of line 98.
RECURSIVE filterSupported(_)
filterSupported(list) ==
  IF list = <<>> THEN <<>>
  ELSE IF isSupported(Head(list))
       THEN <<Head(list)>> \o filterSupported(Tail(list))
       ELSE filterSupported(Tail(list))

\* Lines 97-99, 106-111: the listing arrives; it is filtered and mapped.
Readdir ==
  /\ pc = "readdir"
  /\ \E listing \in Listings :
       /\ allFiles' = listing
       /\ LET kept == filterSupported(listing)
          IN  StartCollect([i \in 1..Len(kept) |-> join(argv.input, kept[i])])
  /\ UNCHANGED <<argv, exitCode, stderr, inputKind, overtaken, reportVars,
                 callVars>>

\* Line 97: fs.readdir rejects.
ReaddirFails ==
  /\ pc = "readdir"
  /\ Caught("EACCES: permission denied")
  /\ UNCHANGED <<argv, exitCode, stderr, inputKind, collectVars, reportVars, callVars>>

\* getFileStats(files[i]) resolves: lines 63-68 and 72-86.
Settle(i, o) ==
  /\ outcome' = [outcome EXCEPT ![i] = o]
  /\ stats' = [stats EXCEPT
       ![i] = getFileStats(files[i], getWordCount(files[i], o), WORDS_PER_MINUTE)]
  /\ task' = [task EXCEPT ![i] = "done"]
  /\ overtaken' = (overtaken \/ \E j \in 1..(i - 1) : task[j] # "done")

\* Lines 49-50: fs.readFile of a PDF resolves and pdf() is awaited, or it
\* rejects and the catch of line 63 returns the zero counts.
ReadFile(i) ==
  /\ pc = "collect"
  /\ task[i] = "readFile"
  /\ \E ok \in BOOLEAN :
       IF ok
       THEN /\ task' = [task EXCEPT ![i] = "pdf"]
            /\ UNCHANGED <<outcome, stats, overtaken>>
       ELSE Settle(i, Failed)
  /\ UNCHANGED <<argv, pc, exitCode, stderr, inputKind, spinner, allFiles, files,
                 reportVars, callVars>>

\* Lines 50-52, 55-57, 60-61: pdf(), mammoth or textract settles.
Extract(i) ==
  /\ pc = "collect"
  /\ task[i] \in {"pdf", "extract"}
  /\ \E o \in SampleOutcomes(files[i]) : Settle(i, o)
  /\ UNCHANGED <<argv, pc, exitCode, stderr, inputKind, spinner, allFiles, files,
                 reportVars, callVars>>

\* Lines 133-139: a row of the table.
rowOf(result, index) ==
  [index |-> index + 1,
   file |-> result.file,
   format |-> result.format,
   pages |-> toLocaleString(result.pageCount),
   readingTime |-> result.readingTime]

RECURSIVE accumulateAssign(_, _)
\* accumulate with totalMinutes = in place of totalMinutes +=.
accumulateAssign(array, totals) ==
  IF array = <<>> THEN totals
  ELSE accumulateAssign(Tail(array),
         [pageCount |-> totals.pageCount + Head(array).pageCount,
          minutes |-> Head(array).readingTimeMinutes])

RECURSIVE accumulate(_, _)
\* Lines 129-130, 140-141: the totals the forEach accumulates.
accumulate(array, totals) ==
  IF array = <<>> THEN totals
  ELSE accumulate(Tail(array),
         [pageCount |-> totals.pageCount + Head(array).pageCount,
          minutes |-> totals.minutes + Head(array).readingTimeMinutes])

\* Lines 149-152: the total reading time.
totalReadingTimeOf(minutes) ==
  LET totalHours == minutes \div 60
      remainingMinutes == minutes % 60
  IN  padStart(toString(totalHours), 2, "0") \o <<":">>
        \o padStart(toString(remainingMinutes), 2, "0") \o <<":", "0", "0">>

\* Promise.race in place of Promise.all: one settled call is enough.
promiseRaceResolved == \E i \in 1..Len(files) : task[i] = "done"

\* Line 111: Promise.all resolves once every getFileStats call has.
promiseAllResolved == \A i \in 1..Len(files) : task[i] = "done"

\* Lines 111-157: after Promise.all the results are sorted on request,
\* tabulated, summed and printed.
Aggregate ==
  /\ pc = "collect"
  /\ promiseAllResolved
  /\ LET settled == [i \in 1..Len(files) |-> stats[i]]
         sorted == IF argv.timesort /\ Len(settled) > 1
                   THEN sort(settled) ELSE settled
         table == [k \in 1..Len(sorted) |-> rowOf(sorted[k], k - 1)]
         totals == accumulate(sorted, [pageCount |-> 0, minutes |-> 0])
         summary == [kind |-> "summary",
                     documents |-> Len(sorted),
                     totalPageCount |-> toLocaleString(totals.pageCount),
                     totalReadingTime |-> totalReadingTimeOf(totals.minutes)]
     IN  /\ results' = sorted
         /\ totalPageCount' = totals.pageCount
         /\ totalMinutes' = totals.minutes
         /\ stdout' = IF Len(sorted) > 1
                      THEN <<[kind |-> "table", rows |-> table], summary>>
                      ELSE <<[kind |-> "table", rows |-> table]>>
  /\ spinner' = Spinner("stopped", "")
  /\ pc' = "returned"
  /\ UNCHANGED <<argv, exitCode, stderr, inputKind, collectVars, callVars>>

\* Nothing is pending after processFiles settles: the process exits with
\* status 0 (no code sets process.exitCode and no rejection is unhandled).
ProcessExit ==
  /\ pc = "returned"
  /\ exitCode' = <<0>>
  /\ pc' = "exited"
  /\ UNCHANGED <<argv, stderr, inputKind, spinner, collectVars, reportVars,
                 callVars>>

Next ==
  \/ RejectWpm
  \/ AcceptWpm
  \/ StatFails
  \/ StatDirectory
  \/ StatSupportedFile
  \/ StatInvalid
  \/ Readdir
  \/ ReaddirFails
  \/ \E i \in 1..Len(files) : ReadFile(i)
  \/ \E i \in 1..Len(files) : Extract(i)
  \/ Aggregate
  \/ ProcessExit

Spec == Init /\ [][Next]_vars

(***************************************************************************)
(* Function-level specifications: getWordCount and getFileStats applied to *)
(* arguments drawn from larger sets than the runs above draw from.         *)
(***************************************************************************)
Chunks == {W(n) : n \in ChunkLens} \cup {S(n) : n \in ChunkLens}

RECURSIVE TextsOf(_)
TextsOf(n) ==
  IF n = 0 THEN {<<>>}
  ELSE {Append(t, c) : t \in TextsOf(n - 1), c \in Chunks}

AllTexts == UNION {TextsOf(n) : n \in 0..MaxChunks}

WordCountArgs ==
  [filePath : {inputPath(Name("f", e)) : e \in {".pdf", ".PDF", ".docx", ".txt", ".md"}},
   outcome : {Failed} \cup {Extracted(t, p) : t \in AllTexts, p \in NativePages}]

\* 0.5, 1, 2.5, 3 and 200 words per minute.
ValidRates == {<<1, 2>>, <<1, 1>>, <<5, 2>>, <<3, 1>>, <<200, 1>>}

FileStatsArgs ==
  [filePath : {inputPath(Name("f", ".txt")), join(Name("in", ""), Name(1, ".PDF"))},
   counts : [wordCount : (0..MaxWordCount) \cup BigWordCounts, pageCount : {0, 1200}],
   wpm : ValidRates]

InitCall(args) ==
  /\ argv = [wpm |-> <<200, 1>>, timesort |-> FALSE, input |-> Name("in", "")]
  /\ pc = "call"
  /\ exitCode = <<>>
  /\ stderr = <<>>
  /\ inputKind = "unknown"
  /\ spinner = Spinner("idle", "")
  /\ allFiles = <<>>
  /\ files = <<>>
  /\ task = <<>>
  /\ outcome = <<>>
  /\ stats = <<>>
  /\ overtaken = FALSE
  /\ results = <<>>
  /\ totalPageCount = 0
  /\ totalMinutes = 0
  /\ stdout = <<>>
  /\ arg \in args
  /\ ret = <<>>

runVars == <<argv, pc, exitCode, stderr, inputKind, spinner, collectVars,
             reportVars>>

InitWordCount == InitCall(WordCountArgs)

CallGetWordCount ==
  /\ pc = "call"
  /\ ret = <<>>
  /\ ret' = <<getWordCount(arg.filePath, arg.outcome)>>
  /\ UNCHANGED <<arg, runVars>>

SpecWordCount == InitWordCount /\ [][CallGetWordCount]_vars

InitFileStats == InitCall(FileStatsArgs)

CallGetFileStats ==
  /\ pc = "call"
  /\ ret = <<>>
  /\ ret' = <<getFileStats(arg.filePath, arg.counts, arg.wpm)>>
  /\ UNCHANGED <<arg, runVars>>

SpecFileStats == InitFileStats /\ [][CallGetFileStats]_vars

(***************************************************************************)
(* Notions the properties are stated with.                                 *)
(***************************************************************************)
\* The number of maximal runs of non-whitespace characters of a text.
MaximalRuns(text) ==
  Cardinality({i \in 1..Len(text) : ~text[i].ws /\ (i = 1 \/ text[i - 1].ws)})

DigitChars == {"0", "1", "2", "3", "4", "5", "6", "7", "8", "9"}

DigitValue(c) ==
  CASE c = "0" -> 0 [] c = "1" -> 1 [] c = "2" -> 2 [] c = "3" -> 3
    [] c = "4" -> 4 [] c = "5" -> 5 [] c = "6" -> 6 [] c = "7" -> 7
    [] c = "8" -> 8 [] c = "9" -> 9

RECURSIVE DecimalValue(_)
DecimalValue(digits) ==
  IF digits = <<>> THEN 0
  ELSE 10 * DecimalValue(SubSeq(digits, 1, Len(digits) - 1))
         + DigitValue(digits[Len(digits)])

\* str is HH:MM:00 for m minutes: MM = m mod 60 in two digits, HH = m div 60
\* in at least two digits, never wrapped, with no zero put before a third digit.
IsDuration(str, m) ==
  LET n == Len(str)
      hh == SubSeq(str, 1, n - 6)
      mm == SubSeq(str, n - 4, n - 3)
  IN  /\ n >= 8
      /\ str[n - 5] = ":" /\ str[n - 2] = ":" /\ str[n - 1] = "0" /\ str[n] = "0"
      /\ \A k \in 1..Len(hh) : hh[k] \in DigitChars
      /\ \A k \in 1..2 : mm[k] \in DigitChars
      /\ DecimalValue(mm) = m % 60
      /\ DecimalValue(hh) = m \div 60
      /\ (Len(hh) = 2 \/ hh[1] # "0")

\* m = ceil(w / r) for a rate r = <<num, den>> > 0: the least integer m with
\* m * r >= w.
IsCeilOfRatio(m, w, r) == m * r[1] >= w * r[2] /\ (m - 1) * r[1] < w * r[2]

\* p = ceil(a / b) for integers a >= 0 and b > 0.
IsCeil(p, a, b) == p * b >= a /\ (p - 1) * b < a

Zeros == <<"0", "0", ":", "0", "0", ":", "0", "0">>

(***************************************************************************)
(* Properties of getWordCount and getFileStats.                            *)
(***************************************************************************)
\* C2: for every extracted text, the word count getWordCount returns is the
\* number of maximal runs of non-whitespace characters of the text; an empty
\* or whitespace-only text has word count 0.
C2_WordCountIsMaximalRuns ==
  (ret # <<>> /\ arg.outcome.ok)
    => ret[1].wordCount = MaximalRuns(arg.outcome.text)

\* The part of C2 the code keeps: a text with a non-whitespace character has
\* as many words as maximal non-whitespace runs; any other text has one.
WordCountOfCode ==
  (ret # <<>> /\ arg.outcome.ok)
    => ret[1].wordCount =
         IF \E i \in 1..Len(arg.outcome.text) : ~arg.outcome.text[i].ws
         THEN MaximalRuns(arg.outcome.text) ELSE 1

\* C3: for every word count w >= 0 and rate r > 0, readingTimeMinutes is
\* ceil(w / r) and readingTime is HH:MM:00 with HH = floor(minutes / 60) in at
\* least two digits, not wrapped at 24, and MM = minutes mod 60 in two digits.
C3_ReadingTime ==
  ret # <<>>
    => /\ IsCeilOfRatio(ret[1].readingTimeMinutes, arg.counts.wordCount, arg.wpm)
       /\ IsDuration(ret[1].readingTime, ret[1].readingTimeMinutes)
       /\ ret[1].wordCount = arg.counts.wordCount

\* 6001 words at 1 word per minute: 100 hours and 1 minute.
C3_Witness ==
  /\ ret # <<>>
  /\ arg.counts.wordCount = 6001 /\ arg.wpm = <<1, 1>>
  /\ ret[1].readingTime = <<"1", "0", "0", ":", "0", "1", ":", "0", "0">>

\* C9: after a successful extraction the page count is the native page count
\* for a PDF and ceil(character count / 1781) for any other format; it is a
\* non-negative integer in every case.
C9_PageCount ==
  ret # <<>>
    => /\ ret[1].pageCount \in Nat
       /\ arg.outcome.ok
            => IF arg.filePath.name.ext \in {".pdf", ".PDF"}
               THEN ret[1].pageCount = arg.outcome.numpages
               ELSE IsCeil(ret[1].pageCount, length(arg.outcome.text), 1781)

\* A text file of 1782 characters has 2 pages.
C9_Witness ==
  /\ ret # <<>>
  /\ arg.outcome.ok
  /\ arg.filePath.name.ext = ".txt"
  /\ length(arg.outcome.text) = 1782
  /\ ret[1].pageCount = 2

(***************************************************************************)
(* Properties of a run.                                                    *)
(***************************************************************************)
Finished == pc \in {"returned", "exited"}

Rows == stdout[1].rows

InvalidInputMessage == "Invalid input. Please provide a supported file or directory."

\* No file was collected and nothing was printed.
NothingCollected == files = <<>> /\ task = <<>> /\ stats = <<>> /\ stdout = <<>>

RECURSIVE SumPages(_)
SumPages(n) == IF n = 0 THEN 0 ELSE stats[n].pageCount + SumPages(n - 1)

RECURSIVE SumMinutes(_)
SumMinutes(n) == IF n = 0 THEN 0 ELSE stats[n].readingTimeMinutes + SumMinutes(n - 1)

RECURSIVE SumWords(_)
SumWords(n) == IF n = 0 THEN 0 ELSE stats[n].wordCount + SumWords(n - 1)

\* The digits of a rendered number, its thousands separators dropped.
RECURSIVE DigitsOnly(_)
DigitsOnly(str) ==
  IF str = <<>> THEN <<>>
  ELSE IF Head(str) = "," THEN DigitsOnly(Tail(str))
       ELSE <<Head(str)>> \o DigitsOnly(Tail(str))

\* C1: a file whose extraction fails still gets a record, with word count 0,
\* page count 0, 0 minutes and reading time 00:00:00; it keeps its row in the
\* report; every other file's record is the one its own extraction determines;
\* and the run ends with the table printed and exit status 0.
C1_FailedExtractionYieldsZeroRecord ==
  /\ \A i \in 1..Len(files) :
       task[i] = "done"
         => IF outcome[i].ok
            THEN stats[i] =
                   getFileStats(files[i], getWordCount(files[i], outcome[i]), argv.wpm)
            ELSE /\ stats[i].file = files[i].name
                 /\ stats[i].wordCount = 0
                 /\ stats[i].pageCount = 0
                 /\ stats[i].readingTimeMinutes = 0
                 /\ stats[i].readingTime = Zeros
  /\ (Finished /\ files # <<>>)
       => /\ stdout # <<>>
          /\ spinner.state = "stopped"
          /\ Len(Rows) = Len(files)
          /\ \A i \in 1..Len(files) :
               \E k \in 1..Len(Rows) :
                 /\ Rows[k].file = files[i].name
                 /\ Rows[k].readingTime = stats[i].readingTime
                 /\ ~outcome[i].ok
                      => Rows[k].pages = <<"0">> /\ Rows[k].readingTime = Zeros
  /\ (pc = "exited" /\ files # <<>>) => exitCode = <<0>>

\* A finished run in which one extraction failed and another found words.
C1_Witness ==
  /\ pc = "exited"
  /\ stdout # <<>>
  /\ \E i, j \in 1..Len(files) :
       /\ ~outcome[i].ok
       /\ outcome[j].ok /\ stats[j].wordCount > 1 /\ stats[j].readingTimeMinutes > 0

\* C4: with --timesort and more than one result, the displayed sequence is a
\* permutation of the collected results with non-increasing reading-time
\* minutes in which results of equal minutes keep their input order; an input
\* already in descending order is left as it is.
C4_TimesortIsStableDescending ==
  (argv.timesort /\ Finished /\ Len(files) > 1)
    => LET n == Len(files)
           pos(i) == CHOOSE k \in 1..n : results[k].file = stats[i].file
       IN  /\ Len(results) = n /\ Len(Rows) = n
           /\ \A i \in 1..n : \E k \in 1..n : results[k] = stats[i]
           /\ \A k \in 1..n :
                /\ Rows[k].file = results[k].file
                /\ Rows[k].readingTime = results[k].readingTime
           /\ \A k \in 1..(n - 1) :
                results[k].readingTimeMinutes >= results[k + 1].readingTimeMinutes
           /\ \A i, j \in 1..n :
                (i < j /\ stats[i].readingTimeMinutes = stats[j].readingTimeMinutes)
                  => pos(i) < pos(j)
           /\ (\A i \in 1..(n - 1) :
                 stats[i].readingTimeMinutes >= stats[i + 1].readingTimeMinutes)
                => results = stats

\* Three files of 2, 62 and 2 minutes: the sort moves the second to the front
\* and keeps the two others in their input order.
C4_Witness ==
  /\ argv.timesort /\ pc = "exited" /\ Len(files) = 3
  /\ stats[1].readingTimeMinutes = 2
  /\ stats[2].readingTimeMinutes = 62
  /\ stats[3].readingTimeMinutes = 2
  /\ results = <<stats[2], stats[1], stats[3]>>

\* C5: after all files are processed the total page count is the sum of the
\* per-file page counts and the total minutes are the sum of the per-file
\* (ceiling-rounded) minutes; the summary shows the HH:MM:00 form of that sum,
\* whether or not the results were sorted.
C5_TotalsAreSums ==
  (Finished /\ files # <<>>)
    => /\ totalPageCount = SumPages(Len(files))
       /\ totalMinutes = SumMinutes(Len(files))
       /\ Len(stdout) = (IF Len(files) > 1 THEN 2 ELSE 1)
       /\ Len(files) > 1
            => /\ stdout[2].kind = "summary"
               /\ stdout[2].documents = Len(files)
               /\ DecimalValue(DigitsOnly(stdout[2].totalPageCount))
                    = SumPages(Len(files))
               /\ IsDuration(stdout[2].totalReadingTime, SumMinutes(Len(files)))

\* A report the sort reordered, whose total minutes (1 + 1 at 200 words per
\* minute) are not the ceiling of the summed word counts divided by the rate.
C5_Witness ==
  /\ pc = "exited" /\ argv.timesort /\ Len(files) > 1
  /\ results # stats
  /\ totalMinutes >= 2
  /\ ~IsCeilOfRatio(totalMinutes, SumWords(Len(files)), argv.wpm)

\* The formats the documentation lists (readme.md lines 54-63).
DocumentedFormats ==
  {".pdf", ".txt", ".md", ".docx", ".rtf", ".epub", ".html", ".odt"}

\* C6: a file is accepted for processing if and only if its extension,
\* compared case-insensitively, is one of pdf, txt, md, docx, rtf, epub, html,
\* odt.
C6_AcceptedIffDocumentedFormat ==
  /\ inputKind = "file"
       => (files = <<inputPath(argv.input)>>
             <=> toLowerCase(argv.input.ext) \in DocumentedFormats)
  /\ (inputKind = "directory" /\ pc # "readdir")
       => \A k \in 1..Len(allFiles) :
            (\E i \in 1..Len(files) : files[i] = join(argv.input, allFiles[k]))
              <=> toLowerCase(allFiles[k].ext) \in DocumentedFormats

IsPositiveNumber(wpm) == wpm[2] > 0 /\ wpm[1] > 0

\* C8: a --wpm that is not a positive number ends the run with a non-zero
\* exit status and an error message before any path is scanned or any file
\* extracted, and no table is printed; every other run exits with status 0.
C8_ExitStatus ==
  /\ exitCode # <<>> <=> pc = "exited"
  /\ (~IsPositiveNumber(argv.wpm) /\ pc # "validate")
       => /\ pc = "exited"
          /\ exitCode # <<>> /\ exitCode[1] # 0
          /\ stderr = <<"Invalid wpm value">>
          /\ inputKind = "unknown"
          /\ spinner.state = "idle"
          /\ allFiles = <<>>
          /\ NothingCollected
  /\ (IsPositiveNumber(argv.wpm) /\ pc = "exited")
       => exitCode = <<0>> /\ stderr = <<>>

\* --wpm 0: the run has ended with status 1.
C8_Witness ==
  /\ argv.wpm = <<0, 1>>
  /\ pc = "exited"
  /\ exitCode = <<1>>

\* C10: whatever the order in which the collections complete, nothing is
\* sorted, summed or printed before every discovered file's collection has
\* completed; the report has exactly one row per discovered file, numbered
\* 1..N; and without --timesort the rows are in discovery order.
C10_ReportAfterAllCollections ==
  /\ pc = "collect"
       => results = <<>> /\ stdout = <<>> /\ totalPageCount = 0 /\ totalMinutes = 0
  /\ (results # <<>> \/ stdout # <<>>)
       => \A i \in 1..Len(files) : task[i] = "done"
  /\ stdout # <<>>
       => /\ Len(Rows) = Len(files)
          /\ \A k \in 1..Len(Rows) : Rows[k].index = k
          /\ \A i \in 1..Len(files) :
               Cardinality({k \in 1..Len(Rows) : Rows[k].file = files[i].name}) = 1
          /\ ~argv.timesort
               => \A k \in 1..Len(Rows) :
                    /\ Rows[k].file = files[k].name
                    /\ Rows[k].readingTime = stats[k].readingTime
                    /\ Rows[k].pages = toLocaleString(stats[k].pageCount)

\* Three files reported in discovery order although a later file's collection
\* completed before an earlier one's.
C10_Witness ==
  /\ overtaken /\ ~argv.timesort
  /\ pc = "exited" /\ Len(files) = 3 /\ Len(Rows) = 3
  /\ \A k \in 1..3 : Rows[k].file = files[k].name

=============================================================================
